---- MODULE Spec2Model ----
(***************************************************************************)
(* A model of writer.LogWriter (src/writer/writer.go): the caller's Write  *)
(* and Close, the line-assembly task (readLines), the scheduler task       *)
(* (periodicFlush), a caller of the public Flush, and the delivery client  *)
(* (PutLogEvents) as the environment.                                      *)
(*                                                                         *)
(* Bytes are modelled by runs: a byte string is a sequence of atoms, an    *)
(* atom being NL (one "\n"), CR (one "\r") or a positive integer n (n      *)
(* ordinary bytes).  Adjacent runs are kept merged, so equal byte strings  *)
(* have equal representations.                                             *)
(***************************************************************************)
EXTENDS Integers, Sequences, FiniteSets, TLC

\* ------------------------------------------------------------ constants

\* writer.go:24
maxSize == 1048576

\* writer.go:30
maxEvents == 10000

\* writer.go:34
eventSize == 26

\* writer.go:38
maxRetries == 5

\* bufio.MaxScanTokenSize, the limit of the scanner made by
\* bufio.NewScanner(w.pr) (writer.go:232): the scanner's buffer never grows
\* past it.
MaxScanTokenSize == 65536

\* ------------------------------------------------------------ bounds

\* Events in the longest buffer drainBuffer is run on.
MaxDrainLen == 10001

\* Write calls the caller makes.
MaxWrites == 2

\* Delivery calls the service answers with an error, in total.
MaxFail == 5

\* Calls of the public Flush.
MaxUserFlush == 1

\* Close calls the caller makes.
MaxClose == 2

\* Bytes of input left from which Write is called with chunks of every small
\* size.
MaxFine == 6

\* ------------------------------------------------------------ bytes

NL == 0
CR == -1

IsRun(a) == a > 0

AtomLen(a) == IF IsRun(a) THEN a ELSE 1

RECURSIVE Bytes(_)
\* len(s) of a byte string
Bytes(s) == IF s = <<>> THEN 0 ELSE AtomLen(Head(s)) + Bytes(Tail(s))

\* s ++ t, adjacent runs merged
Cat(s, t) ==
    IF s = <<>> THEN t
    ELSE IF t = <<>> THEN s
    ELSE IF IsRun(s[Len(s)]) /\ IsRun(t[1])
         THEN SubSeq(s, 1, Len(s) - 1) \o <<s[Len(s)] + t[1]>> \o Tail(t)
         ELSE s \o t

RECURSIVE Take(_, _)
\* s[:k], for 0 <= k <= len(s)
Take(s, k) ==
    IF k = 0 \/ s = <<>> THEN <<>>
    ELSE IF AtomLen(Head(s)) <= k
         THEN Cat(<<Head(s)>>, Take(Tail(s), k - AtomLen(Head(s))))
         ELSE <<k>>

RECURSIVE Drop(_, _)
\* s[k:], for 0 <= k <= len(s)
Drop(s, k) ==
    IF k = 0 \/ s = <<>> THEN s
    ELSE IF AtomLen(Head(s)) <= k
         THEN Drop(Tail(s), k - AtomLen(Head(s)))
         ELSE <<Head(s) - k>> \o Tail(s)

Min(a, b) == IF a <= b THEN a ELSE b

\* index of the first NL atom of s, 0 when there is none (bytes.IndexByte)
IndexNL(s) ==
    IF \E i \in 1..Len(s) : s[i] = NL
    THEN CHOOSE i \in 1..Len(s) : s[i] = NL /\ \A j \in 1..(i - 1) : s[j] # NL
    ELSE 0

\* bufio's dropCR: a trailing "\r" is removed from the line
dropCR(s) ==
    IF s # <<>> /\ s[Len(s)] = CR THEN SubSeq(s, 1, Len(s) - 1) ELSE s

\* bufio.ScanLines(data, atEOF) as [advance (atoms), token, found]
ScanLines(data, atEOF) ==
    IF atEOF /\ data = <<>> THEN [adv |-> 0, token |-> <<>>, found |-> FALSE]
    ELSE IF IndexNL(data) > 0
         THEN [adv |-> IndexNL(data),
               token |-> dropCR(SubSeq(data, 1, IndexNL(data) - 1)),
               found |-> TRUE]
         ELSE IF atEOF
              THEN [adv |-> Len(data), token |-> dropCR(data), found |-> TRUE]
              ELSE [adv |-> 0, token |-> <<>>, found |-> FALSE]

\* ------------------------------------------------------------ errors

\* An error value: its kind and the delivery call (or 0) that produced it.
Nil == [kind |-> "nil", n |-> 0]
ErrTooLong == [kind |-> "ErrTooLong", n |-> 0]
ErrNotImplemented == [kind |-> "not implemented", n |-> 0]
ErrOther(n) == [kind |-> "other", n |-> n]
ErrInvalidSequenceToken(n) == [kind |-> "InvalidSequenceToken", n |-> n]

\* ------------------------------------------------------------ events

\* cloudwatchlogs.InputLogEvent{Message, Timestamp}
Event(text, t) == [msg |-> text, ts |-> t]

\* the batch size CloudWatch counts for one event
EventBytes(e) == Bytes(e.msg) + eventSize

RECURSIVE RangeBytes(_, _, _)
\* the sum of EventBytes over es[lo..hi], by halves
RangeBytes(es, lo, hi) ==
    IF lo > hi THEN 0
    ELSE IF lo = hi THEN EventBytes(es[lo])
    ELSE LET mid == (lo + hi) \div 2
         IN  RangeBytes(es, lo, mid) + RangeBytes(es, mid + 1, hi)

\* the byte size of a batch: the sum over its events of len(message) + 26
BatchBytes(es) == RangeBytes(es, 1, Len(es))

\* ------------------------------------------------------------ drainBuffer

\* DrainStop with the event cap tested one event late
DrainStopLate(size, n) == size > maxSize \/ n > maxEvents

\* writer.go:211, the loop's break condition: size is the byte total and n
\* the number of events taken so far
DrainStop(size, n) == size > maxSize \/ n >= maxEvents

RECURSIVE DrainLoop(_, _, _)
\* writer.go:210-218: the loop over w.buf, from cnt events taken with byte
\* total size; yields the final cnt and size
DrainLoop(b, cnt, size) ==
    IF cnt = Len(b) \/ DrainStop(size, cnt)
    THEN [cnt |-> cnt, size |-> size]
    ELSE DrainLoop(b, cnt + 1, size + EventBytes(b[cnt + 1]))

\* drainBuffer leaving w.bufSize as it was
drainBufferKeepsSize(b, bs) ==
    LET r == DrainLoop(b, 0, 0)
    IN  [events  |-> SubSeq(b, 1, r.cnt),
         buf     |-> SubSeq(b, r.cnt + 1, Len(b)),
         bufSize |-> bs]

\* drainBuffer leaving in the buffer the event that takes the batch over
\* the byte cap
drainBufferWithinCap(b, bs) ==
    LET r == DrainLoop(b, 0, 0)
        c == IF r.size > maxSize THEN r.cnt - 1 ELSE r.cnt
    IN  [events  |-> SubSeq(b, 1, c),
         buf     |-> SubSeq(b, c + 1, Len(b)),
         bufSize |-> bs - RangeBytes(b, 1, c)]

\* writer.go:203-224: the batch returned and the buffer left
drainBuffer(b, bs) ==
    LET r == DrainLoop(b, 0, 0)
    IN  [events  |-> SubSeq(b, 1, r.cnt),
         buf     |-> SubSeq(b, r.cnt + 1, Len(b)),
         bufSize |-> bs - r.size]

\* ------------------------------------------------------------ state

VARIABLES
    buf,            \* w.buf
    bufSize,        \* w.bufSize
    flushErr,       \* w.flushErr
    sequenceToken,  \* w.sequenceToken, 0 for ""
    mu,             \* the holder of w.Mutex, "none" when free
    tickerStopped,  \* w.ticker.Stop() was called
    tickC,          \* the stopped ticker has left a tick in w.ticker.C (a channel of capacity 1)
    pwClosed,       \* w.pw.Close() was called
    pipeData,       \* the bytes of the Write in progress the pipe still holds
    scanBuf,        \* the scanner's unconsumed bytes
    scanEOF,        \* the scanner has read io.EOF
    readerPc,       \* readLines: "scan" (in its loop), "send" (at w.scanErr <-), "done"
    readerErr,      \* sc.Err()
    callerPc,       \* the caller: "open", "write", "close_ticker", "close_send",
                    \* "close_recv", "flushAll", "flush", "closed"
    nWrites,        \* Write calls made
    nClose,         \* Close calls made
    closeRet,       \* what each Close call that returned has returned
    schedPc,        \* periodicFlush: "select", "flush", "exited"
    fpc,            \* each thread's place in Flush: "idle", "check", "lock", "attempt"
    fcnt,           \* retry's cnt, of the Flush holding the lock
    ferr,           \* retry's err
    finput,         \* input.SequenceToken, 0 when not set
    fbatch,         \* input.LogEvents
    fret,           \* the value the last Flush to return has returned
    fstart,         \* the sticky error, if any, a Flush had returned when each thread's Flush was called
    sticky,         \* the error of the first Flush that returned a terminal error
    userCalls,      \* calls of the public Flush made
    clock,          \* readings of now() taken
    nFail,          \* delivery calls that returned an error
    nFlush,         \* batches drained
    nCalls,         \* delivery calls made
    lastCall,       \* the last delivery call made
    fstats,         \* the delivery calls of the last batch drained, counted by outcome
    sent,           \* the batches drained, each as handed to its first delivery call, in order
    delivered,      \* the batches of the calls the service took (ok or already accepted), in order
    produced,       \* the events appended, in order
    dCnt,           \* drainBuffer run step by step: its cnt
    dSize,          \* its size
    dPc,            \* "loop" (in the loop of writer.go:210), "done"
    input,          \* the bytes a caller is to hand to Write, chunk by chunk
    rest            \* those not yet handed over

writerVars == <<buf, bufSize, flushErr, sequenceToken, mu>>
tickVars == <<tickerStopped, tickC>>
pipeVars == <<pwClosed, pipeData>>
readerVars == <<scanBuf, scanEOF, readerPc, readerErr>>
callerVars == <<callerPc, nWrites, nClose, closeRet>>
flushVars == <<fpc, fcnt, ferr, finput, fbatch, fret, fstart, sticky, nFlush>>
envVars == <<nFail, nCalls, lastCall, fstats, sent, delivered>>
drainVars == <<dCnt, dSize, dPc>>
splitVars == <<input, rest>>

vars == <<buf, bufSize, flushErr, sequenceToken, mu, tickerStopped, tickC,
          pwClosed, pipeData, scanBuf, scanEOF, readerPc, readerErr,
          callerPc, nWrites, nClose, closeRet, schedPc, fpc, fcnt, ferr,
          finput, fbatch, fret, fstart, sticky, userCalls, clock,
          nFail, nFlush, nCalls, lastCall, fstats, sent, delivered,
          produced, dCnt, dSize, dPc, input, rest>>

\* The threads that call Flush: the scheduler, Close (through flushAll) and
\* a caller of the public method.
Threads == {"sched", "close", "user"}

\* A delivery call: the token sent, the outcome res, the token the outcome
\* carries (rtok, 0 for none), the sleep made before the call (ms) and the
\* calls of createLogStream made on its error.
NoCall == [tok |-> 0, res |-> "none", rtok |-> 0, sleep |-> 0, create |-> 0]

\* The delivery calls made for a batch: their number and the outcomes seen.
NoStats == [calls |-> 0, kinds |-> {}]

\* writer.go:98-116: the writer New returns, its two tasks started (but for
\* the empty buffer)
New ==
    /\ flushErr = Nil
    /\ sequenceToken = 0
    /\ mu = "none"
    /\ tickerStopped = FALSE
    /\ tickC = FALSE
    /\ pwClosed = FALSE
    /\ pipeData = <<>>
    /\ scanBuf = <<>>
    /\ scanEOF = FALSE
    /\ readerPc = "scan"
    /\ readerErr = Nil
    /\ callerPc = "open"
    /\ nWrites = 0
    /\ nClose = 0
    /\ closeRet = <<>>
    /\ schedPc = "select"
    /\ fpc = [t \in Threads |-> "idle"]
    /\ fcnt = 0
    /\ ferr = Nil
    /\ finput = 0
    /\ fbatch = <<>>
    /\ fret = Nil
    /\ fstart = [t \in Threads |-> Nil]
    /\ sticky = Nil
    /\ userCalls = 0
    /\ clock = 0
    /\ nFail = 0
    /\ nFlush = 0
    /\ nCalls = 0
    /\ lastCall = NoCall
    /\ fstats = NoStats
    /\ sent = <<>>
    /\ delivered = <<>>
    /\ produced = <<>>

Init ==
    /\ New
    /\ buf = <<>>
    /\ bufSize = 0
    /\ dCnt = 0
    /\ dSize = 0
    /\ dPc = "done"
    /\ input = <<>>
    /\ rest = <<>>

\* ------------------------------------------------------------ the caller

\* The chunks a Write call may carry: a whole line, the start of a line, a
\* bare newline, and MaxScanTokenSize bytes holding no newline.
Chunks == {<<3, NL>>, <<2>>, <<NL>>, <<MaxScanTokenSize>>}

\* writer.go:119-121: Write hands data to the pipe, and returns once the
\* reading side has taken all of it (ScanRead)
Write(data) ==
    /\ callerPc = "open"
    /\ nClose = 0
    /\ nWrites < MaxWrites
    /\ pipeData' = data
    /\ nWrites' = nWrites + 1
    /\ callerPc' = "write"
    /\ UNCHANGED <<writerVars, tickVars, pwClosed, readerVars, nClose, closeRet,
                   schedPc, flushVars, userCalls, clock, envVars, produced, drainVars, splitVars>>

\* writer.go:126: Close's first step, w.pw.Close()
CloseBegin ==
    /\ callerPc \in {"open", "closed"}
    /\ nClose < MaxClose
    /\ pwClosed' = TRUE
    /\ nClose' = nClose + 1
    /\ callerPc' = "close_ticker"
    /\ UNCHANGED <<writerVars, tickVars, pipeData, readerVars, nWrites, closeRet,
                   schedPc, flushVars, userCalls, clock, envVars, produced, drainVars, splitVars>>

\* writer.go:270: stop's w.ticker.Stop(); no tick is sent from now on, and a
\* tick sent before and not yet taken stays in the channel
CloseStopTicker ==
    /\ callerPc = "close_ticker"
    /\ tickerStopped' = TRUE
    /\ tickC' \in IF tickerStopped THEN {tickC} ELSE BOOLEAN
    /\ callerPc' = "close_send"
    /\ UNCHANGED <<writerVars, pipeVars, readerVars, nWrites, nClose,
                   closeRet, schedPc, flushVars, userCalls, clock, envVars,
                   produced, drainVars, splitVars>>

\* writer.go:271 and 263-264: w.closed is unbuffered, so stop's send happens
\* when periodicFlush's select takes it, and periodicFlush returns
CloseSend ==
    /\ callerPc = "close_send"
    /\ schedPc = "select"
    /\ schedPc' = "exited"
    /\ callerPc' = "close_recv"
    /\ UNCHANGED <<writerVars, tickVars, pipeVars, readerVars, nWrites, nClose,
                   closeRet, flushVars, userCalls, clock, envVars, produced, drainVars, splitVars>>

\* CloseRecv going on to flushAll whatever the scan result is
CloseRecvIgnoresError ==
    /\ callerPc = "close_recv"
    /\ readerPc = "send"
    /\ readerPc' = "done"
    /\ callerPc' = "flushAll"
    /\ UNCHANGED <<writerVars, tickVars, pipeVars, scanBuf, scanEOF,
                   readerErr, nWrites, nClose, closeRet, schedPc, flushVars,
                   userCalls, clock, envVars, produced, drainVars, splitVars>>

\* writer.go:129-131 and 238: Close receives readLines' scan result, and
\* returns it when it is an error
CloseRecv ==
    /\ callerPc = "close_recv"
    /\ readerPc = "send"
    /\ readerPc' = "done"
    /\ IF readerErr # Nil
       THEN /\ closeRet' = Append(closeRet, readerErr)
            /\ callerPc' = "closed"
       ELSE /\ closeRet' = closeRet
            /\ callerPc' = "flushAll"
    /\ UNCHANGED <<writerVars, tickVars, pipeVars, scanBuf, scanEOF,
                   readerErr, nWrites, nClose, schedPc, flushVars, userCalls,
                   clock, envVars, produced, drainVars, splitVars>>

\* writer.go:274-282: one test of flushAll's loop condition; Flush is called,
\* or flushAll (and Close) returns nil
flushAll ==
    /\ callerPc = "flushAll"
    /\ IF Len(buf) > 0
       THEN /\ callerPc' = "flush"
            /\ fpc' = [fpc EXCEPT !["close"] = "check"]
            /\ fstart' = [fstart EXCEPT !["close"] = sticky]
            /\ closeRet' = closeRet
       ELSE /\ callerPc' = "closed"
            /\ closeRet' = Append(closeRet, Nil)
            /\ UNCHANGED <<fpc, fstart>>
    /\ UNCHANGED <<writerVars, tickVars, pipeVars, readerVars, nWrites, nClose,
                   schedPc, fcnt, ferr, finput, fbatch, fret, sticky, nFlush,
                   userCalls, clock, envVars, produced, drainVars, splitVars>>

\* ------------------------------------------------------------ readLines

\* The scanner's buffer is full: it holds MaxScanTokenSize bytes.
ScanFull == Bytes(scanBuf) >= MaxScanTokenSize

\* writer.go:234, sc.Scan reads more: as many of the pipe's bytes as the
\* buffer has room for, which lets the Write that has handed over its last
\* byte return (writer.go:120), or io.EOF once the pipe is closed and empty
ScanRead ==
    /\ readerPc = "scan"
    /\ ~ScanLines(scanBuf, scanEOF).found
    /\ ~scanEOF
    /\ ~ScanFull
    /\ \/ /\ pipeData # <<>>
          /\ LET n == Min(MaxScanTokenSize - Bytes(scanBuf), Bytes(pipeData))
             IN  /\ scanBuf' = Cat(scanBuf, Take(pipeData, n))
                 /\ pipeData' = Drop(pipeData, n)
                 /\ callerPc' = IF n = Bytes(pipeData) THEN "open" ELSE callerPc
          /\ scanEOF' = scanEOF
       \/ /\ pipeData = <<>>
          /\ pwClosed
          /\ scanEOF' = TRUE
          /\ UNCHANGED <<scanBuf, pipeData, callerPc>>
    /\ UNCHANGED <<writerVars, tickVars, pwClosed, readerPc, readerErr, nWrites,
                   nClose, closeRet, schedPc, flushVars, userCalls, clock, envVars,
                   produced, drainVars, splitVars>>

\* ScanEnd with readLines returning without sending the scan result
ScanEndNoSend ==
    /\ readerPc = "scan"
    /\ ~ScanLines(scanBuf, scanEOF).found
    /\ \/ /\ scanEOF
          /\ readerErr' = Nil
       \/ /\ ~scanEOF
          /\ ScanFull
          /\ readerErr' = ErrTooLong
    /\ readerPc' = "done"
    /\ UNCHANGED <<writerVars, tickVars, pipeVars, scanBuf, scanEOF,
                   callerVars, schedPc, flushVars, userCalls, clock, envVars,
                   produced, drainVars, splitVars>>

\* writer.go:234-238 (sc.Scan returns false): at the end of the input with
\* no error, or with ErrTooLong when the full buffer holds no line
ScanEnd ==
    /\ readerPc = "scan"
    /\ ~ScanLines(scanBuf, scanEOF).found
    /\ \/ /\ scanEOF
          /\ readerErr' = Nil
       \/ /\ ~scanEOF
          /\ ScanFull
          /\ readerErr' = ErrTooLong
    /\ readerPc' = "send"
    /\ UNCHANGED <<writerVars, tickVars, pipeVars, scanBuf, scanEOF,
                   callerVars, schedPc, flushVars, userCalls, clock, envVars,
                   produced, drainVars, splitVars>>

\* appendEvent putting a one-byte placeholder in the place of an empty line
appendEventPlaceholder(text) ==
    /\ mu = "none"
    /\ LET m == IF text = <<>> THEN <<1>> ELSE text
       IN  /\ buf' = Append(buf, Event(m, clock + 1))
           /\ produced' = Append(produced, Event(m, clock + 1))
           /\ clock' = clock + 1
           /\ bufSize' = bufSize + Bytes(m) + 26

\* appendEvent putting the new event at the head of w.buf
appendEventAtFront(text) ==
    IF text = <<>>
    THEN UNCHANGED <<buf, bufSize, clock, produced>>
    ELSE /\ mu = "none"
         /\ buf' = <<Event(text, clock + 1)>> \o buf
         /\ produced' = Append(produced, Event(text, clock + 1))
         /\ clock' = clock + 1
         /\ bufSize' = bufSize + Bytes(text) + 26

\* writer.go:241-254: appendEvent(text), as the changes to w.buf, w.bufSize,
\* the clock and the events produced; nothing is done for an empty line
appendEvent(text) ==
    IF text = <<>>
    THEN UNCHANGED <<buf, bufSize, clock, produced>>
    ELSE /\ mu = "none"
         /\ buf' = Append(buf, Event(text, clock + 1))
         /\ produced' = Append(produced, Event(text, clock + 1))
         /\ clock' = clock + 1
         /\ bufSize' = bufSize + Bytes(text) + 26

\* writer.go:234-236: a turn of readLines' loop when the scanner holds a
\* line: sc.Scan returns true and the line is appended, under the lock
ScanAppend ==
    /\ readerPc = "scan"
    /\ LET r == ScanLines(scanBuf, scanEOF)
       IN  /\ r.found
           /\ scanBuf' = SubSeq(scanBuf, r.adv + 1, Len(scanBuf))
           /\ appendEvent(r.token)
    /\ UNCHANGED <<flushErr, sequenceToken, mu, tickVars, pipeVars, scanEOF, readerPc,
                   readerErr, callerVars, schedPc, flushVars, userCalls, envVars,
                   drainVars, splitVars>>

\* ------------------------------------------------------------ Flush

\* The outcomes of one PutLogEvents call.
Outcomes == {"ok", "accepted", "stale", "notfound", "other"}

\* The outcomes that carry a token: NextSequenceToken of the response, or
\* ExpectedSequenceToken of the exception.
WithToken == {"ok", "accepted", "stale"}

\* The token the service hands out in answer to a call that sent tok: one of
\* two tokens, and never the one it was sent.
ServiceToken(tok) == IF tok = 1 THEN 2 ELSE 1

\* writer.go:198-201
createLogStream == ErrNotImplemented

\* handleError leaving w.sequenceToken alone on a stale-token error
handleErrorKeepsToken(kind, expected, n, tok) ==
    CASE kind = "accepted" -> [tok |-> expected, err |-> Nil, create |-> 0]
      [] kind = "stale"    -> [tok |-> tok, err |-> ErrInvalidSequenceToken(n), create |-> 0]
      [] kind = "notfound" -> [tok |-> tok, err |-> createLogStream, create |-> 1]
      [] OTHER             -> [tok |-> tok, err |-> ErrOther(n), create |-> 0]

\* handleError returning the already-accepted error like any other
handleErrorAcceptedFails(kind, expected, n, tok) ==
    CASE kind = "accepted" -> [tok |-> expected, err |-> ErrOther(n), create |-> 0]
      [] kind = "stale"    -> [tok |-> expected, err |-> ErrInvalidSequenceToken(n), create |-> 0]
      [] kind = "notfound" -> [tok |-> tok, err |-> createLogStream, create |-> 1]
      [] OTHER             -> [tok |-> tok, err |-> ErrOther(n), create |-> 0]

\* handleError going on to return the error without calling createLogStream
handleErrorSkipsCreate(kind, expected, n, tok) ==
    CASE kind = "accepted" -> [tok |-> expected, err |-> Nil, create |-> 0]
      [] kind = "stale"    -> [tok |-> expected, err |-> ErrInvalidSequenceToken(n), create |-> 0]
      [] OTHER             -> [tok |-> tok, err |-> ErrOther(n), create |-> 0]

\* writer.go:176-196: handleError on the error of delivery call n, with tok
\* the current w.sequenceToken and expected the token the error carries; the
\* new w.sequenceToken, the error returned and the calls of createLogStream
\* made
handleError(kind, expected, n, tok) ==
    CASE kind = "accepted" -> [tok |-> expected, err |-> Nil, create |-> 0]
      [] kind = "stale"    -> [tok |-> expected, err |-> ErrInvalidSequenceToken(n), create |-> 0]
      [] kind = "notfound" -> [tok |-> tok, err |-> createLogStream, create |-> 1]
      [] OTHER             -> [tok |-> tok, err |-> ErrOther(n), create |-> 0]

\* writer.go:158-170: the function Flush hands to retry, run as delivery
\* call n with outcome kind
Deliver(kind, expected, n, tok) ==
    IF kind = "ok"
    THEN [tok |-> expected, err |-> Nil, create |-> 0]
    ELSE handleError(kind, expected, n, tok)

\* writer.go:159-161: the token sent, input.SequenceToken after the
\* conditional SetSequenceToken
TokenSent(tok, inputTok) == IF tok # 0 THEN tok ELSE inputTok

\* SleepBefore with the same sleep before every retry
SleepBeforeFlat(cnt) == IF cnt > 0 THEN 100 ELSE 0

\* writer.go:291-293: the sleep, in ms, before an attempt made with cnt
\* failures counted
SleepBefore(cnt) == IF cnt > 0 THEN cnt * 100 ELSE 0

\* writer.go:295-299: retry's cnt after an attempt that returned err
CountAfter(cnt, err) == IF err = Nil THEN cnt ELSE cnt + 1

\* RetryDone giving up one attempt early
RetryDoneEarly(cnt, err) == err = Nil \/ ~(cnt < maxRetries - 1)

\* writer.go:290-302: retry returns after an attempt that returned err and
\* left the count at cnt
RetryDone(cnt, err) == err = Nil \/ ~(cnt < maxRetries)

\* Flush returns err to thread t: periodicFlush discards it (writer.go:260),
\* flushAll returns it when it is an error (writer.go:276-278).
Return(t, err) ==
    /\ fpc' = [fpc EXCEPT ![t] = "idle"]
    /\ fret' = err
    /\ schedPc' = IF t = "sched" THEN "select" ELSE schedPc
    /\ callerPc' = IF t = "close"
                   THEN (IF err # Nil THEN "closed" ELSE "flushAll")
                   ELSE callerPc
    /\ closeRet' = IF t = "close" /\ err # Nil THEN Append(closeRet, err) ELSE closeRet

\* writer.go:138-141: the test of w.flushErr, made without the lock
FlushCheck(t) ==
    /\ fpc[t] = "check"
    /\ IF flushErr # Nil
       THEN Return(t, flushErr)
       ELSE /\ fpc' = [fpc EXCEPT ![t] = "lock"]
            /\ UNCHANGED <<fret, schedPc, callerPc, closeRet>>
    /\ UNCHANGED <<writerVars, tickVars, pipeVars, readerVars, nWrites, nClose,
                   fcnt, ferr, finput, fbatch, fstart, sticky, nFlush, userCalls,
                   clock, envVars, produced, drainVars, splitVars>>

\* FlushLock giving the lock back once the batch is drained
FlushLockUnlocksEarly(t) ==
    /\ fpc[t] = "lock"
    /\ mu = "none"
    /\ IF Len(buf) = 0
       THEN /\ Return(t, Nil)
            /\ UNCHANGED <<buf, bufSize, mu, fcnt, ferr, finput, fbatch, nFlush, fstats>>
       ELSE /\ LET d == drainBuffer(buf, bufSize)
               IN  /\ buf' = d.buf
                   /\ bufSize' = d.bufSize
                   /\ fbatch' = d.events
            /\ mu' = "none"
            /\ fcnt' = 0
            /\ ferr' = Nil
            /\ finput' = 0
            /\ nFlush' = nFlush + 1
            /\ fstats' = NoStats
            /\ fpc' = [fpc EXCEPT ![t] = "attempt"]
            /\ UNCHANGED <<fret, schedPc, callerPc, closeRet>>
    /\ UNCHANGED <<flushErr, sequenceToken, tickVars, pipeVars, readerVars, nWrites,
                   nClose, fstart, sticky, userCalls, clock, nFail, nCalls,
                   lastCall, sent, delivered, produced, drainVars, splitVars>>

\* writer.go:143-156: the lock is taken; Flush returns nil on an empty
\* buffer, and else drains a batch and builds the input
FlushLock(t) ==
    /\ fpc[t] = "lock"
    /\ mu = "none"
    /\ IF Len(buf) = 0
       THEN /\ Return(t, Nil)
            /\ UNCHANGED <<buf, bufSize, mu, fcnt, ferr, finput, fbatch, nFlush, fstats>>
       ELSE /\ LET d == drainBuffer(buf, bufSize)
               IN  /\ buf' = d.buf
                   /\ bufSize' = d.bufSize
                   /\ fbatch' = d.events
            /\ mu' = t
            /\ fcnt' = 0
            /\ ferr' = Nil
            /\ finput' = 0
            /\ nFlush' = nFlush + 1
            /\ fstats' = NoStats
            /\ fpc' = [fpc EXCEPT ![t] = "attempt"]
            /\ UNCHANGED <<fret, schedPc, callerPc, closeRet>>
    /\ UNCHANGED <<flushErr, sequenceToken, tickVars, pipeVars, readerVars, nWrites,
                   nClose, fstart, sticky, userCalls, clock, nFail, nCalls,
                   lastCall, sent, delivered, produced, drainVars, splitVars>>

\* FlushAttempt putting the batch back at the head of w.buf when retry
\* gives up
FlushAttemptRequeues(t, kind) ==
    /\ fpc[t] = "attempt"
    /\ kind = "ok" \/ nFail < MaxFail
    /\ LET n == nCalls + 1
           tokSent == TokenSent(sequenceToken, finput)
           expected == ServiceToken(tokSent)
           r == Deliver(kind, expected, n, sequenceToken)
           cnt == CountAfter(fcnt, r.err)
       IN  /\ nCalls' = n
           /\ lastCall' = [tok |-> tokSent, res |-> kind,
                           rtok |-> IF kind \in WithToken THEN expected ELSE 0,
                           sleep |-> SleepBefore(fcnt), create |-> r.create]
           /\ fstats' = [calls |-> fstats.calls + 1, kinds |-> fstats.kinds \cup {kind}]
           /\ sent' = IF fstats.calls = 0 THEN sent \o fbatch ELSE sent
           /\ delivered' = IF kind \in {"ok", "accepted"}
                            THEN delivered \o fbatch
                            ELSE delivered
           /\ nFail' = IF kind = "ok" THEN nFail ELSE nFail + 1
           /\ sequenceToken' = r.tok
           /\ finput' = tokSent
           /\ fcnt' = cnt
           /\ ferr' = r.err
           /\ IF RetryDone(cnt, r.err)
              THEN /\ flushErr' = r.err
                   /\ mu' = "none"
                   /\ sticky' = IF sticky = Nil THEN r.err ELSE sticky
                   /\ buf' = IF r.err # Nil THEN fbatch \o buf ELSE buf
                   /\ bufSize' = IF r.err # Nil THEN bufSize + BatchBytes(fbatch) ELSE bufSize
                   /\ Return(t, r.err)
              ELSE UNCHANGED <<flushErr, mu, sticky, fpc, fret, schedPc, callerPc,
                               closeRet, buf, bufSize>>
    /\ UNCHANGED <<tickVars, pipeVars, readerVars, nWrites, nClose,
                   fbatch, fstart, nFlush, userCalls, clock, produced, drainVars, splitVars>>

\* writer.go:290-300 and 158-173: one turn of retry's loop, the delivery call
\* ending with outcome kind; after the last turn Flush records the error and
\* returns it
FlushAttempt(t, kind) ==
    /\ fpc[t] = "attempt"
    /\ kind = "ok" \/ nFail < MaxFail
    /\ LET n == nCalls + 1
           tokSent == TokenSent(sequenceToken, finput)
           expected == ServiceToken(tokSent)
           r == Deliver(kind, expected, n, sequenceToken)
           cnt == CountAfter(fcnt, r.err)
       IN  /\ nCalls' = n
           /\ lastCall' = [tok |-> tokSent, res |-> kind,
                           rtok |-> IF kind \in WithToken THEN expected ELSE 0,
                           sleep |-> SleepBefore(fcnt), create |-> r.create]
           /\ fstats' = [calls |-> fstats.calls + 1, kinds |-> fstats.kinds \cup {kind}]
           /\ sent' = IF fstats.calls = 0 THEN sent \o fbatch ELSE sent
           /\ delivered' = IF kind \in {"ok", "accepted"}
                            THEN delivered \o fbatch
                            ELSE delivered
           /\ nFail' = IF kind = "ok" THEN nFail ELSE nFail + 1
           /\ sequenceToken' = r.tok
           /\ finput' = tokSent
           /\ fcnt' = cnt
           /\ ferr' = r.err
           /\ IF RetryDone(cnt, r.err)
              THEN /\ flushErr' = r.err
                   /\ mu' = "none"
                   /\ sticky' = IF sticky = Nil THEN r.err ELSE sticky
                   /\ Return(t, r.err)
              ELSE UNCHANGED <<flushErr, mu, sticky, fpc, fret, schedPc, callerPc,
                               closeRet>>
    /\ UNCHANGED <<buf, bufSize, tickVars, pipeVars, readerVars, nWrites, nClose,
                   fbatch, fstart, nFlush, userCalls, clock, produced, drainVars, splitVars>>

\* ------------------------------------------------------------ periodicFlush

\* writer.go:259-260: the select takes a tick and calls Flush.  A running
\* ticker sends a tick every 2 s, so one may be there whenever the select
\* looks; a stopped one sends none, and the select can only take the tick
\* left in the channel.  (Nothing sends on w.signalFlush, so the case of
\* writer.go:261 is never taken.)
SchedTick ==
    /\ schedPc = "select"
    /\ ~tickerStopped \/ tickC
    /\ tickC' = FALSE
    /\ schedPc' = "flush"
    /\ fpc' = [fpc EXCEPT !["sched"] = "check"]
    /\ fstart' = [fstart EXCEPT !["sched"] = sticky]
    /\ UNCHANGED <<writerVars, tickerStopped, pipeVars, readerVars, callerVars,
                   fcnt, ferr, finput, fbatch, fret, sticky, nFlush, userCalls,
                   clock, envVars, produced, drainVars, splitVars>>

\* writer.go:137: a call of the public Flush from a thread of the caller's
UserFlush ==
    /\ fpc["user"] = "idle"
    /\ userCalls < MaxUserFlush
    /\ userCalls' = userCalls + 1
    /\ fpc' = [fpc EXCEPT !["user"] = "check"]
    /\ fstart' = [fstart EXCEPT !["user"] = sticky]
    /\ UNCHANGED <<writerVars, tickVars, pipeVars, readerVars, callerVars, schedPc,
                   fcnt, ferr, finput, fbatch, fret, sticky, nFlush, clock,
                   envVars, produced, drainVars, splitVars>>

\* ------------------------------------------------------------ the writer

Next ==
    \/ \E data \in Chunks : Write(data)
    \/ CloseBegin
    \/ CloseStopTicker
    \/ CloseSend
    \/ CloseRecv
    \/ flushAll
    \/ ScanAppend
    \/ ScanRead
    \/ ScanEnd
    \/ SchedTick
    \/ UserFlush
    \/ \E t \in Threads : FlushCheck(t)
    \/ \E t \in Threads : FlushLock(t)
    \/ \E t \in Threads, kind \in Outcomes : FlushAttempt(t, kind)

Spec == Init /\ [][Next]_vars

\* Every task that can take a step in the end takes one: Close goes on
\* through its steps (writer.go:126-133), readLines through its loop
\* (writer.go:234-238), and a Flush that was called makes its test, gets the
\* lock when it is free, and has every delivery call return
\* (writer.go:138-173).  Nothing makes the caller call Write, Close or
\* Flush, nor the ticker send a tick.
Fairness ==
    /\ WF_vars(CloseStopTicker)
    /\ WF_vars(CloseSend)
    /\ WF_vars(CloseRecv)
    /\ WF_vars(flushAll)
    /\ WF_vars(ScanRead)
    /\ WF_vars(ScanAppend)
    /\ WF_vars(ScanEnd)
    /\ \A t \in Threads :
          /\ WF_vars(FlushCheck(t))
          /\ WF_vars(FlushLock(t))
          /\ WF_vars(\E kind \in Outcomes : FlushAttempt(t, kind))

SpecLive == Init /\ [][Next]_vars /\ Fairness

\* ------------------------------------------------------------ drainBuffer, step by step

\* The longest line the scanner yields: a longer one does not fit its
\* buffer with its newline.
MaxLine == MaxScanTokenSize - 1

\* A buffer of n events, the first k with messages of la bytes and the
\* others of lb bytes, stamped 1..n.
BufOf(n, k, la, lb) == [i \in 1..n |-> Event(<<IF i <= k THEN la ELSE lb>>, i)]

\* The buffers drainBuffer is run on: short ones, ones at the byte cap and
\* ones at the event cap.
DrainShapes ==
    {[n |-> n, k |-> 0, la |-> 1, lb |-> lb] :
        n \in {0, 1, 2, 15, 16, 17, 40}, lb \in {1, 30000, MaxLine}}
    \cup {[n |-> n, k |-> 0, la |-> 1, lb |-> 1] :
        n \in {MaxDrainLen - 1, MaxDrainLen}}
    \cup {[n |-> MaxDrainLen, k |-> MaxDrainLen - 11, la |-> 1, lb |-> MaxLine]}

\* The turns of the loop a run of drainBuffer is followed from: the first,
\* and on a buffer that reaches the event cap also a turn shortly before
\* the cap, a state the run followed from the first turn passes through.
DrainFrom(sh) == IF sh.n >= maxEvents THEN {0, maxEvents - 10} ELSE {0}

\* writer.go:204-210: drainBuffer at the head of a turn of its loop, with
\* cnt events taken, size their byte total, and no break so far (the totals
\* only grow, so the turn before decides)
InitDrain ==
    /\ New
    /\ \E sh \in DrainShapes : \E c \in DrainFrom(sh) :
          /\ buf = BufOf(sh.n, sh.k, sh.la, sh.lb)
          /\ bufSize = sh.k * (sh.la + 26) + (sh.n - sh.k) * (sh.lb + 26)
          /\ dCnt = c
          /\ dSize = RangeBytes(buf, 1, c)
          /\ c = 0 \/ ~DrainStop(RangeBytes(buf, 1, c - 1), c - 1)
    /\ dPc = "loop"
    /\ input = <<>>
    /\ rest = <<>>

\* writer.go:210-218: one turn of the loop, taking the event w.buf[cnt]
DrainStep ==
    /\ dPc = "loop"
    /\ dCnt < Len(buf)
    /\ ~DrainStop(dSize, dCnt)
    /\ dSize' = dSize + EventBytes(buf[dCnt + 1])
    /\ dCnt' = dCnt + 1
    /\ UNCHANGED <<writerVars, tickVars, pipeVars, readerVars, callerVars, schedPc,
                   flushVars, userCalls, clock, envVars, produced, dPc, splitVars>>

\* writer.go:211-212 and 220-223: the loop ends, at the end of w.buf or by
\* the break, and the batch is cut off the buffer
DrainEnd ==
    /\ dPc = "loop"
    /\ dCnt = Len(buf) \/ DrainStop(dSize, dCnt)
    /\ fbatch' = SubSeq(buf, 1, dCnt)
    /\ buf' = SubSeq(buf, dCnt + 1, Len(buf))
    /\ bufSize' = bufSize - dSize
    /\ dPc' = "done"
    /\ UNCHANGED <<flushErr, sequenceToken, mu, tickVars, pipeVars, readerVars,
                   callerVars, schedPc, fpc, fcnt, ferr, finput, fret, fstart,
                   sticky, nFlush, userCalls, clock, envVars, produced, dCnt, dSize,
                   splitVars>>

NextDrain == DrainStep \/ DrainEnd

SpecDrain == InitDrain /\ [][NextDrain]_vars

\* ------------------------------------------------------------ Write, chunk by chunk

\* The byte strings a caller hands to the writer: lines with and without a
\* final newline, empty lines, "\r" before a newline, at the end of the
\* input and inside a line, and lines at and over the scanner's limit.
Inputs ==
    {<<1, NL, 2, NL, 1>>,
     <<NL, 1, NL, NL>>,
     <<2, CR, NL, 1, CR>>,
     <<CR, NL, 1, CR, 1, NL>>,
     <<MaxLine, NL, 1>>,
     <<1, NL, MaxScanTokenSize, NL>>}

\* The sizes of the chunk the next Write may carry when r is left: any of
\* the first few sizes while r is short, and about a half, all but one
\* byte, or all of r.
ChunkSizes(r) ==
    {k \in {1, 2, 3, Bytes(r) \div 2, Bytes(r) - 1, Bytes(r)} :
        /\ k >= 1
        /\ k <= Bytes(r)
        /\ Bytes(r) > MaxFine => k >= Bytes(r) \div 2}

InitSplit ==
    /\ New
    /\ buf = <<>>
    /\ bufSize = 0
    /\ dCnt = 0
    /\ dSize = 0
    /\ dPc = "done"
    /\ input \in Inputs
    /\ rest = input

\* writer.go:119-121: Write called with the next k bytes of the input
WriteChunk(k) ==
    /\ callerPc = "open"
    /\ nClose = 0
    /\ rest # <<>>
    /\ pipeData' = Take(rest, k)
    /\ rest' = Drop(rest, k)
    /\ nWrites' = nWrites + 1
    /\ callerPc' = "write"
    /\ UNCHANGED <<writerVars, tickVars, pwClosed, readerVars, nClose, closeRet,
                   schedPc, flushVars, userCalls, clock, envVars, produced,
                   drainVars, input>>

\* The bytes handed to Write so far.
Written == Take(input, Bytes(input) - Bytes(rest))

NextSplit ==
    \/ \E k \in ChunkSizes(rest) : WriteChunk(k)
    \/ CloseBegin
    \/ ScanRead
    \/ ScanAppend
    \/ ScanEnd

SpecSplit == InitSplit /\ [][NextSplit]_vars

\* ------------------------------------------------------------ flushAll on a long buffer

\* The buffers Close finds when it comes to flushAll: empty, short, and of
\* lines long enough for the byte cap to cut the batch.
FlushShapes ==
    {[n |-> n, lb |-> lb] : n \in {0, 1, 2, 17, 40}, lb \in {1, MaxLine}}

\* writer.go:125-133: the writer when Close comes to call flushAll, n lines
\* of lb bytes having been written and appended and no Flush made so far:
\* the pipe is closed, the ticker stopped, periodicFlush has returned
\* (writer.go:263-264) and readLines has sent a nil scan result
\* (writer.go:238)
InitFlushAll ==
    /\ \E sh \in FlushShapes :
          /\ buf = BufOf(sh.n, 0, sh.lb, sh.lb)
          /\ bufSize = sh.n * (sh.lb + 26)
          /\ produced = buf
          /\ clock = sh.n
          /\ nWrites = IF sh.n = 0 THEN 0 ELSE 1
    /\ flushErr = Nil
    /\ sequenceToken = 0
    /\ mu = "none"
    /\ tickerStopped = TRUE
    /\ tickC = FALSE
    /\ pwClosed = TRUE
    /\ pipeData = <<>>
    /\ scanBuf = <<>>
    /\ scanEOF = TRUE
    /\ readerPc = "done"
    /\ readerErr = Nil
    /\ callerPc = "flushAll"
    /\ nClose = 1
    /\ closeRet = <<>>
    /\ schedPc = "exited"
    /\ fpc = [t \in Threads |-> "idle"]
    /\ fcnt = 0
    /\ ferr = Nil
    /\ finput = 0
    /\ fbatch = <<>>
    /\ fret = Nil
    /\ fstart = [t \in Threads |-> Nil]
    /\ sticky = Nil
    /\ userCalls = 0
    /\ nFail = 0
    /\ nFlush = 0
    /\ nCalls = 0
    /\ lastCall = NoCall
    /\ fstats = NoStats
    /\ sent = <<>>
    /\ delivered = <<>>
    /\ dCnt = 0
    /\ dSize = 0
    /\ dPc = "done"
    /\ input = <<>>
    /\ rest = <<>>

\* The threads that can call Flush once periodicFlush has returned.
Flushers == {"close", "user"}

NextFlushAll ==
    \/ flushAll
    \/ UserFlush
    \/ \E t \in Flushers : FlushCheck(t)
    \/ \E t \in Flushers : FlushLock(t)
    \/ \E t \in Flushers, kind \in Outcomes : FlushAttempt(t, kind)

SpecFlushAll == InitFlushAll /\ [][NextFlushAll]_vars

\* ------------------------------------------------------------ claims

\* The first Close call has returned.
CloseReturned == Len(closeRet) >= 1

\* C1: when every delivery call succeeds and Flush is called by the
\* scheduler and by Close only, once Close has returned, the batches handed
\* to the delivery calls, in call order, are the events produced, and Close
\* has returned nil.
C1_AllDeliveredInOrder ==
    (CloseReturned /\ nFail = 0 /\ userCalls = 0) =>
        (sent = produced /\ delivered = produced /\ closeRet[1] = Nil)

\* C2: a Close that returns after some Flush has recorded a terminal error
\* returns that error.
C2_CloseReturnsSticky ==
    [][(~CloseReturned /\ CloseReturned' /\ sticky' # Nil) => closeRet'[1] = sticky']_vars

\* C3: a second Close, called after the first returned nil, is never stuck:
\* it is not left at stop's send on w.closed with periodicFlush gone.
C3_SecondCloseNotBlocked ==
    ~(nClose = 2 /\ closeRet[1] = Nil /\ callerPc = "close_send" /\ schedPc = "exited")

\* C4: the byte size of every batch drainBuffer returns is at most maxSize.
C4_BatchWithinByteCap == dPc = "done" => BatchBytes(fbatch) <= maxSize

\* C5: every batch drainBuffer returns holds at most maxEvents events.
C5_BatchWithinEventCap == dPc = "done" => Len(fbatch) <= maxEvents

\* C5's case: the event cap has cut the batch short of the buffer.
C5_Witness == dPc = "done" /\ Len(fbatch) = maxEvents /\ Len(buf) > 0

\* C6: a delivery call that fails with a stale-token error leaves retry's
\* attempt counter as it was.
C6_StaleTokenNotCounted ==
    [][(nCalls' = nCalls + 1 /\ lastCall'.res = "stale") => fcnt' = fcnt]_vars

\* The token the call after call c is to send.
TokenAfter(c) == IF c.res \in WithToken THEN c.rtok ELSE c.tok

\* C7: every delivery call sends the token the call before it returned or
\* carried in its stale-token or already-accepted error, else the token that
\* call sent; the first call sends none.
C7_TokenChain ==
    [][nCalls' = nCalls + 1 => lastCall'.tok = TokenAfter(lastCall)]_vars

\* C7's case: a call has sent a token adopted from a stale-token error.
C7_Witness ==
    /\ nCalls >= 3
    /\ lastCall.tok = 2
    /\ fstats.kinds = {"stale"}
    /\ fstats.calls >= 3

\* C8: a Flush all of whose delivery calls fail with a generic error makes
\* exactly maxRetries calls, records the last call's error as w.flushErr and
\* returns it, and Close, when it runs this Flush, returns it too.
C8_RetriesExhausted ==
    [][\A t \in Threads :
          (fpc[t] = "attempt" /\ nCalls' = nCalls + 1 /\ fstats'.kinds = {"other"}) =>
              IF fstats'.calls < maxRetries
              THEN fpc'[t] = "attempt"
              ELSE /\ fstats'.calls = maxRetries
                   /\ fpc'[t] = "idle"
                   /\ flushErr' = ErrOther(nCalls')
                   /\ fret' = flushErr'
                   /\ t = "close" => (callerPc' = "closed" /\
                                      closeRet' = Append(closeRet, flushErr'))]_vars

\* C8's case: Close has run a Flush that failed maxRetries times.
C8_Witness ==
    /\ CloseReturned
    /\ closeRet[1].kind = "other"
    /\ fstats = [calls |-> maxRetries, kinds |-> {"other"}]

\* C9: a Flush called after a Flush has returned a terminal error returns
\* that error at its first test, and goes no further.
C9_StickyShortCircuits ==
    [][\A t \in Threads :
          (fpc[t] = "check" /\ fpc'[t] # "check" /\ fstart[t] # Nil) =>
              (fpc'[t] = "idle" /\ fret' = fstart[t]
               /\ UNCHANGED <<buf, bufSize, sequenceToken, nCalls>>)]_vars

\* C10: a delivery call that fails as already accepted ends the Flush with
\* nil: the error's token is adopted, the Flush returns nil and w.flushErr
\* is nil.
C10_AlreadyAcceptedIsSuccess ==
    [][\A t \in Threads :
          (fpc[t] = "attempt" /\ nCalls' = nCalls + 1 /\ lastCall'.res = "accepted") =>
              /\ sequenceToken' = lastCall'.rtok
              /\ fpc'[t] = "idle"
              /\ mu' = "none"
              /\ fret' = Nil
              /\ flushErr' = Nil]_vars

\* C10's case: the last delivery call failed as already accepted.
C10_Witness ==
    /\ lastCall.res = "accepted"
    /\ lastCall.tok # 0
    /\ sequenceToken = lastCall.rtok
    /\ flushErr = Nil

\* C11: a Flush whose first delivery call fails as destination-not-found
\* calls createLogStream once on it, counts it as one attempt and tries
\* again; when the second call succeeds, two calls were made, none of them
\* after it, createLogStream was not called again, and Flush returns nil.
C11_NotFoundThenSuccess ==
    [][\A t \in Threads :
          (fpc[t] = "attempt" /\ nCalls' = nCalls + 1) =>
              /\ (fstats.calls = 0 /\ lastCall'.res = "notfound") =>
                     /\ lastCall'.create = 1
                     /\ fcnt' = 1
                     /\ fpc'[t] = "attempt"
              /\ (fstats = [calls |-> 1, kinds |-> {"notfound"}] /\ lastCall'.res = "ok") =>
                     /\ lastCall.create + lastCall'.create = 1
                     /\ fstats'.calls = 2
                     /\ fcnt' = 1
                     /\ fpc'[t] = "idle"
                     /\ mu' = "none"
                     /\ fret' = Nil
                     /\ flushErr' = Nil]_vars

\* C11's case: a Flush has ended after a destination-not-found failure
\* followed by a success.
C11_Witness ==
    /\ fstats = [calls |-> 2, kinds |-> {"notfound", "ok"}]
    /\ lastCall.res = "ok"
    /\ mu = "none"
    /\ fret = Nil

\* C12: once Close has made its first step, periodicFlush starts no Flush.
C12_NoSchedFlushAfterClose ==
    [][nClose >= 1 => ~(schedPc = "select" /\ schedPc' = "flush")]_vars

\* C13: when the scan result Close receives is an error, Close returns it
\* and calls no Flush, leaving the buffer as it is; and from then on no
\* delivery call is made but by a caller of the public Flush.
C13_ReadErrorSkipsFlushAll ==
    [][/\ (callerPc = "close_recv" /\ callerPc' # "close_recv" /\ readerErr # Nil) =>
              /\ closeRet' = Append(closeRet, readerErr)
              /\ callerPc' = "closed"
              /\ fpc'["close"] = "idle"
              /\ UNCHANGED <<buf, bufSize, nCalls>>
       /\ (CloseReturned /\ closeRet[1] = ErrTooLong) =>
              /\ fpc'["close"] = "idle" /\ fpc'["sched"] = "idle"
              /\ nCalls' # nCalls => fpc["user"] = "attempt"
              /\ buf' # buf => fpc["user"] = "lock"]_vars

\* C13's case: Close has returned the read error with events in the buffer.
C13_Witness ==
    /\ CloseReturned
    /\ closeRet[1] = ErrTooLong
    /\ callerPc = "closed"
    /\ Len(buf) > 0
    /\ nCalls = 0

\* The messages of a sequence of events.
Msgs(es) == [i \in 1..Len(es) |-> es[i].msg]

RECURSIVE SplitNL(_, _)
\* The pieces of s between its newlines, cur being the piece begun; the
\* piece after the last newline counts when it is not empty.
SplitNL(s, cur) ==
    IF s = <<>> THEN (IF cur = <<>> THEN <<>> ELSE <<cur>>)
    ELSE IF Head(s) = NL THEN <<cur>> \o SplitNL(Tail(s), <<>>)
    ELSE SplitNL(Tail(s), Append(cur, Head(s)))

\* The newline-delimited decomposition of s into events: its lines, less
\* the empty ones, which yield no event.
Lines(s) == SelectSeq(SplitNL(s, <<>>), LAMBDA l : l # <<>>)

\* C14: when the input has ended, the events produced are the lines of the
\* bytes written, however they were cut into chunks.
C14_EventsAreLines ==
    (pwClosed /\ readerPc = "send") => Msgs(produced) = Lines(Written)

RECURSIVE FinalLine(_, _)
\* The bytes of s after its last newline, cur being those seen since the
\* last one.
FinalLine(s, cur) ==
    IF s = <<>> THEN cur
    ELSE IF Head(s) = NL THEN FinalLine(Tail(s), <<>>)
    ELSE FinalLine(Tail(s), Append(cur, Head(s)))

\* C15: when the input has ended in a non-empty line with no newline after
\* it, that line is the last event appended.
C15_FinalLineIsLastEvent ==
    (pwClosed /\ readerPc = "send" /\ FinalLine(Written, <<>>) # <<>>) =>
        /\ produced # <<>>
        /\ produced[Len(produced)].msg = FinalLine(Written, <<>>)

\* The scanner holds an empty line: the next turn of readLines' loop calls
\* appendEvent with "".
EmptyLineNext ==
    /\ readerPc = "scan"
    /\ ScanLines(scanBuf, scanEOF).found
    /\ ScanLines(scanBuf, scanEOF).token = <<>>

Placeholder == <<1>>

\* C17: a turn of readLines' loop on an empty line (a newline with nothing
\* before it) appends one event, the placeholder stamped with a clock
\* reading of its own, after the events of the lines before it.
C17_EmptyLineYieldsPlaceholder ==
    [][(readerPc = "scan" /\ scanBuf # <<>> /\ scanBuf[1] = NL /\ scanBuf' # scanBuf) =>
          /\ clock' = clock + 1
          /\ produced' = Append(produced, Event(Placeholder, clock'))
          /\ buf' = Append(buf, Event(Placeholder, clock'))]_vars

\* C18: whenever the lock is free, w.bufSize is the sum over the events in
\* w.buf of len(message) + 26.
C18_BufSizeIsSum == mu = "none" => bufSize = BatchBytes(buf)

\* C18's case: events have been appended, a batch was drained and its
\* Flush failed, and an event appended since is in the buffer.
C18_Witness ==
    /\ mu = "none"
    /\ nFlush >= 1
    /\ sticky # Nil
    /\ Len(buf) >= 1
    /\ Len(produced) = 2
    /\ bufSize = BatchBytes(buf)

\* The threads whose Flush is in retry's loop, making delivery calls.
Delivering == {t \in Threads : fpc[t] = "attempt"}

\* C19: at most one Flush is making delivery calls, it holds the lock, and
\* until it has returned no other batch is drained: the batch in hand stays
\* the same and no event leaves the buffer.
C19_OneBatchAtATime ==
    [][/\ Cardinality(Delivering') <= 1
       /\ \A t \in Delivering' : mu' = t
       /\ Delivering # {} =>
              /\ nFlush' = nFlush
              /\ fbatch' = fbatch
              /\ buf' = buf
              /\ nCalls' # nCalls => (sent' = sent \/ fstats.calls = 0)]_vars

\* C19's case: while a Flush of the scheduler is retrying its batch, a
\* public Flush is waiting for the lock.
C19_Witness ==
    /\ fpc["sched"] = "attempt"
    /\ fstats.calls >= 2
    /\ fpc["user"] = "lock"
    /\ callerPc = "write"

\* C20: the delivery call that follows, in the same Flush, a call that
\* failed with a stale-token error is made with no sleep before it; when it
\* succeeds the Flush ends with nil after these two calls.
C20_StaleTokenRetriedAtOnce ==
    [][\A t \in Threads :
          (fpc[t] = "attempt" /\ nCalls' = nCalls + 1 /\ fstats.calls >= 1
                /\ lastCall.res = "stale") =>
              /\ lastCall'.sleep = 0
              /\ (fstats.calls = 1 /\ lastCall'.res = "ok") =>
                     (fstats'.calls = 2 /\ fpc'[t] = "idle" /\ fret' = Nil)]_vars

\* C21: in a Flush whose delivery calls fail only with generic errors, no
\* sleep is made before the first call, the sleep before the call that
\* follows k failed calls is k * 100 ms, and the Flush returns in the step
\* of its last failed call, with no sleep after it.
C21_LinearBackoff ==
    [][\A t \in Threads :
          (fpc[t] = "attempt" /\ nCalls' = nCalls + 1 /\ fstats'.kinds = {"other"}) =>
              /\ lastCall'.sleep = fstats.calls * 100
              /\ fstats.calls = 0 => lastCall'.sleep = 0
              /\ lastCall'.sleep \in {0, 100, 200, 300, 400}
              /\ fstats'.calls = maxRetries => fpc'[t] = "idle"]_vars

\* C21's case: a Flush has made its last call after four failures and a
\* sleep of 400 ms, and has returned its error.
C21_Witness ==
    /\ fstats = [calls |-> maxRetries, kinds |-> {"other"}]
    /\ lastCall.sleep = 400
    /\ lastCall.res = "other"
    /\ mu = "none"
    /\ fret = ErrOther(nCalls)

\* The timestamps of es never decrease along es.
NonDecreasing(es) == \A i \in 1..(Len(es) - 1) : es[i].ts <= es[i + 1].ts

\* C22: the k-th event appended carries the k-th reading of the clock, and
\* the timestamps of the events in the buffer, and of the events of the
\* batch of every Flush, never decrease in order.
C22_StampedInAppendOrder ==
    /\ Len(produced) = clock
    /\ \A k \in 1..Len(produced) : produced[k].ts = k
    /\ NonDecreasing(buf)
    /\ NonDecreasing(fbatch)
    /\ NonDecreasing(delivered)

\* C22's case: two events were appended, drained as one batch and
\* delivered.
C22_Witness ==
    /\ Len(fbatch) = 2
    /\ fbatch = produced
    /\ delivered = fbatch
    /\ fbatch[1].ts = 1
    /\ fbatch[2].ts = 2

\* C23: no line is too long: readLines never ends with a read error, and
\* when the input has ended every line written of MaxScanTokenSize bytes or
\* more has been made an event.
C23_NoLineLengthLimit ==
    /\ readerErr = Nil
    /\ (pwClosed /\ readerPc = "send") =>
           \A i \in 1..Len(Lines(Written)) :
              Bytes(Lines(Written)[i]) >= MaxScanTokenSize =>
                  \E k \in 1..Len(produced) : produced[k].msg = Lines(Written)[i]

\* The events drained so far: the batches handed to a delivery call, and the
\* batch of the Flush that has drained one and has made no call yet.
Drained ==
    IF fstats.calls = 0 /\ \E t \in Threads : fpc[t] = "attempt"
    THEN sent \o fbatch
    ELSE sent

\* A Flush of thread t returns an error from retry in this step.
FlushFails(t) == fpc[t] = "attempt" /\ fpc'[t] = "idle" /\ fret' # Nil

\* C24: the step in which a Flush fails for good leaves the buffer without
\* the events of its batch, holding the events behind them in their order,
\* with bufSize their byte total; and at every time the events drained
\* followed by the events in the buffer are the events appended, each once,
\* so that no event drained is in a later batch.
C24_FailedBatchIsDropped ==
    [][/\ \A t \in Threads :
             FlushFails(t) =>
                /\ buf' = buf
                /\ bufSize' = BatchBytes(buf')
                /\ \A i \in 1..Len(buf'), j \in 1..Len(fbatch) : buf'[i] # fbatch[j]
                /\ produced = sent' \o buf'
       /\ produced' = Drained' \o buf']_vars

\* C24's case: Close has returned the error of a Flush whose batch the byte
\* cap had cut short of the buffer; the events behind the batch are in the
\* buffer, and its events are not.
C24_Witness ==
    /\ CloseReturned
    /\ closeRet[1].kind = "other"
    /\ fstats = [calls |-> maxRetries, kinds |-> {"other"}]
    /\ Len(fbatch) = 16
    /\ Len(buf) = 24
    /\ buf[1].ts = 17
    /\ delivered = <<>>

\* C25: once w.flushErr is an error it is an error in every later state.
C25_StickyNeverCleared == [][flushErr # Nil => flushErr' # Nil]_vars

\* C26: when every task takes its steps and every delivery call returns,
\* the first Close called returns, whatever periodicFlush and readLines are
\* doing when it is called; and when it has returned nil the buffer is
\* empty.
C26_CloseReturns ==
    /\ (nClose >= 1) ~> CloseReturned
    /\ []((CloseReturned /\ closeRet[1] = Nil) => buf = <<>>)

\* C26's case: the first Close has returned nil after delivery calls that
\* failed and were retried; both lines written were delivered, in two
\* batches, and the buffer is empty.
C26_Witness ==
    /\ closeRet = <<Nil>>
    /\ callerPc = "closed"
    /\ buf = <<>>
    /\ nFail >= 2
    /\ nFlush = 2
    /\ Len(produced) = 2
    /\ delivered = produced

\* C27: when every task takes its steps and every delivery call returns,
\* every Write call returns.
C27_WriteReturns == (callerPc = "write") ~> (callerPc # "write")

\* An event larger by itself than the byte cap of a batch.
OverCap == Event(<<maxSize + 1>>, 0)

\* C28: drainBuffer takes at least one event off a non-empty buffer, also
\* when the event at the head is larger than the byte cap; so a Flush that
\* finds events shortens the buffer, and the number of batches drained is
\* at most the number of events that have left the buffer.
C28_DrainTakesAnEvent ==
    [][/\ \A t \in Threads :
             (fpc[t] = "lock" /\ fpc'[t] # "lock" /\ Len(buf) > 0) =>
                /\ Len(fbatch') >= 1
                /\ Len(buf') < Len(buf)
                /\ fbatch' \o buf' = buf
       /\ drainBuffer(<<OverCap>> \o buf', EventBytes(OverCap) + bufSize')
             = [events |-> <<OverCap>>, buf |-> buf', bufSize |-> bufSize']
       /\ nFlush' <= Len(produced') - Len(buf')
       /\ CloseReturned' => nFlush' <= Len(produced')]_vars

\* C28's case: flushAll has emptied a buffer of 40 events in three batches,
\* each cut by the byte cap or by the end of the buffer, and Close has
\* returned nil.
C28_Witness ==
    /\ closeRet = <<Nil>>
    /\ Len(produced) = 40
    /\ nFlush = 3
    /\ Len(fbatch) = 8
    /\ buf = <<>>
    /\ delivered = produced

====
